---- MODULE Spec2Model ----
(***************************************************************************)
(* A model of app.py, the competency-framework dashboard: six tables are   *)
(* loaded and normalised at import, the page layout is built once (which   *)
(* calls create_organization_chart), and afterwards every UI event runs    *)
(* the callbacks registered on the component that changed.                 *)
(*                                                                         *)
(* A table is [columns, rows]: the set of its column names and the         *)
(* sequence of its rows, each row a function from the columns to cells.    *)
(* A missing cell (pandas NaN; read_csv reads an empty cell and the text   *)
(* "NaN" both as missing) is the value NaN.                                *)
(***************************************************************************)
EXTENDS Integers, Sequences, FiniteSets, TLC

VARIABLES
    framework_data,           \* app.py:24  all_competency_framework.csv
    definitions_data,         \* app.py:25  competency_definitions.csv
    rating_scales_data,       \* app.py:26  all_rating_scales.csv
    competency_data,          \* app.py:27  spider_chart_data.csv
    position_sub_items_data,  \* app.py:28  position_sub_items.csv
    organization_chart_data,  \* app.py:29  organization_chart_data.csv
    phase,                    \* "loaded" (after line 45), "serving", "failed"
    page,                     \* the rendered regions: id -> <<>> or <<value>>
    n_clicks,                 \* the submit button's n_clicks property
    last_event,               \* the event last dispatched
    handlers_run,             \* the handlers that event triggered, in order
    send_calls,               \* number of sg.send calls made so far
    submissions               \* number of submit_form runs with n_clicks truthy

vars == <<framework_data, definitions_data, rating_scales_data, competency_data,
          position_sub_items_data, organization_chart_data, phase, page,
          n_clicks, last_event, handlers_run, send_calls, submissions>>

tables == <<framework_data, definitions_data, rating_scales_data, competency_data,
            position_sub_items_data, organization_chart_data>>

(***************************************************************************)
(* Bounds of the model.                                                    *)
(***************************************************************************)
MaxOrgRows == 2
MaxFrameworkRows == 3
MaxRatingRows == 3
MaxCompetencyRows == 3
MaxClicks == 2
MaxDefinitionRows == 2

(***************************************************************************)
(* Cells and generic table helpers.                                        *)
(***************************************************************************)
NaN == "NaN"

SeqsUpTo(S, n) == UNION {[1..k -> S] : k \in 0..n}

Table(cols, rs) == [columns |-> cols, rows |-> rs]

\* df[df[col] == value]: the rows whose cell equals value, in input order.
\* A missing cell compares unequal to everything, itself included.
RECURSIVE FilterRows(_, _, _)
FilterRows(rs, col, value) ==
    IF rs = <<>> THEN <<>>
    ELSE LET rest == FilterRows(Tail(rs), col, value)
         IN  IF Head(rs)[col] # NaN /\ value # NaN /\ Head(rs)[col] = value
             THEN <<Head(rs)>> \o rest
             ELSE rest

\* series.tolist()
ColumnList(rs, col) == [i \in 1..Len(rs) |-> rs[i][col]]

\* series.unique(): the distinct cells in order of first appearance.
RECURSIVE Unique(_)
Unique(s) ==
    IF s = <<>> THEN <<>>
    ELSE LET init == Unique(SubSeq(s, 1, Len(s) - 1))
             last == s[Len(s)]
         IN  IF \E i \in 1..Len(init) : init[i] = last THEN init
             ELSE Append(init, last)

\* needle in haystack, for Python strings.
Contains(haystack, needle) ==
    \E i \in 1..(Len(haystack) - Len(needle) + 1) :
        SubSeq(haystack, i, i + Len(needle) - 1) = needle

(***************************************************************************)
(* create_organization_chart (app.py:79-99).                               *)
(***************************************************************************)
\* series.fillna('')
FillNa(v) == IF v = NaN THEN "" ELSE v

\* data['name'] + " (" + data['title'] + ")": missing if either side is.
Label(name, title) ==
    IF name = NaN \/ title = NaN THEN NaN
    ELSE name \o " (" \o title \o ")"

\* Lines 80-81: the two column assignments, made on the frame passed in.
OrgAssignColumns(data) ==
    Table(data.columns \cup {"label"},
          [i \in 1..Len(data.rows) |->
              [c \in data.columns \cup {"label"} |->
                  IF c = "manager" THEN FillNa(data.rows[i]["manager"])
                  ELSE IF c = "label"
                       THEN Label(data.rows[i]["name"], data.rows[i]["title"])
                       ELSE data.rows[i][c]]])

\* A variant of the lookup that hands back the manager's name unresolved.
ParentLabelUnresolved(rs, x) == x

\* Line 84, the lambda: the label of the first row named x, '' if none is.
ParentLabel(rs, x) ==
    IF \E j \in 1..Len(rs) : rs[j]["name"] = x
    THEN rs[CHOOSE j \in 1..Len(rs) :
                /\ rs[j]["name"] = x
                /\ \A k \in 1..(j - 1) : rs[k]["name"] # x]["label"]
    ELSE ""

\* Line 86: 'Manager' in title raises TypeError on a missing title.
ColorsRaise(rs) == \E i \in 1..Len(rs) : rs[i]["title"] = NaN

NodeColor(title) == IF Contains(title, "Manager") THEN "green" ELSE "blue"

\* The figure of lines 83-99, from the frame as lines 80-81 left it.
OrgFigure(rs) ==
    [data  |-> <<[kind    |-> "sunburst",
                  labels  |-> ColumnList(rs, "label"),
                  parents |-> [i \in 1..Len(rs) |->
                                  ParentLabel(rs, rs[i]["manager"])],
                  colors  |-> [i \in 1..Len(rs) |->
                                  NodeColor(rs[i]["title"])]]>>,
     title |-> "Organization Chart"]

\* The whole call: the frame it leaves behind, whether it raised, its figure.
create_organization_chart(data) ==
    LET after == OrgAssignColumns(data)
    IN  [data   |-> after,
         raised |-> ColorsRaise(after.rows),
         fig    |-> IF ColorsRaise(after.rows) THEN <<>>
                    ELSE <<OrgFigure(after.rows)>>]

(***************************************************************************)
(* Python string operations used by the builders.                          *)
(***************************************************************************)
\* The characters of the modelled cells, in ascending code-point order.
CodePoints == " ABCDEFGHIJKLMNOPQRSTUVWXYZabcdefghijklmnopqrstuvwxyz"
UpperChars == "ABCDEFGHIJKLMNOPQRSTUVWXYZ"
LowerChars == "abcdefghijklmnopqrstuvwxyz"

\* The position of each character of chars, as a lookup table.
CharIndex(chars) ==
    [ch \in {SubSeq(chars, i, i) : i \in 1..Len(chars)} |->
        CHOOSE i \in 1..Len(chars) : SubSeq(chars, i, i) = ch]

OrdOf == CharIndex(CodePoints)
UpperIndex == CharIndex(UpperChars)
LowerIndex == CharIndex(LowerChars)

Ord(ch) == OrdOf[ch]

\* a < b on Python strings: lexicographic by code point.
RECURSIVE StrLess(_, _)
StrLess(a, b) ==
    IF b = "" THEN FALSE
    ELSE IF a = "" THEN TRUE
    ELSE LET x == Ord(SubSeq(a, 1, 1))
             y == Ord(SubSeq(b, 1, 1))
         IN  \/ x < y
             \/ x = y /\ StrLess(SubSeq(a, 2, Len(a)), SubSeq(b, 2, Len(b)))

LowerChar(ch) ==
    IF ch \in DOMAIN UpperIndex
    THEN SubSeq(LowerChars, UpperIndex[ch], UpperIndex[ch])
    ELSE ch

UpperChar(ch) ==
    IF ch \in DOMAIN LowerIndex
    THEN SubSeq(UpperChars, LowerIndex[ch], LowerIndex[ch])
    ELSE ch

\* str.lower()
RECURSIVE Lower(_)
Lower(s) ==
    IF s = "" THEN ""
    ELSE LowerChar(SubSeq(s, 1, 1)) \o Lower(SubSeq(s, 2, Len(s)))

\* str.capitalize(): first character upper-cased, the rest lower-cased.
Capitalize(s) ==
    IF s = "" THEN ""
    ELSE UpperChar(SubSeq(s, 1, 1)) \o Lower(SubSeq(s, 2, Len(s)))

\* f"{cell}" of a cell: a missing cell prints as nan.
Str(cell) == IF cell = NaN THEN "nan" ELSE cell

(***************************************************************************)
(* df.groupby(col): pandas' defaults are sort=True and dropna=True, so the *)
(* groups come in ascending key order and rows with a missing key belong   *)
(* to no group; inside a group the rows keep their input order.            *)
(***************************************************************************)
\* Insert key k into the ascending duplicate-free sequence s.
RECURSIVE InsertSorted(_, _)
InsertSorted(s, k) ==
    IF s = <<>> THEN <<k>>
    ELSE IF Head(s) = k THEN s
    ELSE IF StrLess(k, Head(s)) THEN <<k>> \o s
    ELSE <<Head(s)>> \o InsertSorted(Tail(s), k)

RECURSIVE SortedKeys(_, _)
SortedKeys(rs, col) ==
    IF rs = <<>> THEN <<>>
    ELSE LET init == SortedKeys(SubSeq(rs, 1, Len(rs) - 1), col)
             k    == rs[Len(rs)][col]
         IN  IF k = NaN THEN init ELSE InsertSorted(init, k)

\* A variant that keeps the keys in order of first appearance (sort=False).
RECURSIVE GroupKeysUnsorted(_, _)
GroupKeysUnsorted(rs, col) ==
    IF rs = <<>> THEN <<>>
    ELSE LET init == GroupKeysUnsorted(SubSeq(rs, 1, Len(rs) - 1), col)
             k    == rs[Len(rs)][col]
         IN  IF k = NaN \/ \E i \in 1..Len(init) : init[i] = k THEN init
             ELSE Append(init, k)

GroupKeys(rs, col) == SortedKeys(rs, col)

\* The sequence of <<key, rows of the group>> that the for loop walks.
GroupBy(rs, col) ==
    LET keys == GroupKeys(rs, col)
    IN  [g \in 1..Len(keys) |->
            [key |-> keys[g], rows |-> FilterRows(rs, col, keys[g])]]

\* Concatenation of a sequence of sequences.
RECURSIVE Flatten(_)
Flatten(ss) == IF ss = <<>> THEN <<>> ELSE Head(ss) \o Flatten(Tail(ss))

\* An html.Div of the tree and list builders: its role, text and colour.
Div(tag, text, color) == [tag |-> tag, text |-> text, color |-> color]

TypeColor(type) ==
    IF Lower(type) = "technical ability" THEN "red" ELSE "green"

(***************************************************************************)
(* create_taxonomy_tree (app.py:102-124).                                  *)
(***************************************************************************)
\* A variant whose lookup has no default text: a miss gives a missing cell.
DefinitionOfNoDefault(defs, competency) ==
    IF \E j \in 1..Len(defs) : defs[j]["competency"] = competency
    THEN defs[CHOOSE j \in 1..Len(defs) :
                  /\ defs[j]["competency"] = competency
                  /\ \A k \in 1..(j - 1) : defs[k]["competency"] # competency
             ]["definition"]
    ELSE NaN

\* Lines 105-107: the first definition of the competency, else the default.
DefinitionOf(defs, competency) ==
    IF \E j \in 1..Len(defs) : defs[j]["competency"] = competency
    THEN defs[CHOOSE j \in 1..Len(defs) :
                  /\ defs[j]["competency"] = competency
                  /\ \A k \in 1..(j - 1) : defs[k]["competency"] # competency
             ]["definition"]
    ELSE "No definition available."

\* Lines 108-123: the blocks of one group.
TaxonomyGroup(defs, g) ==
    <<Div("competency", g.key, "blue"),
      Div("definition", "Definition: " \o Str(DefinitionOf(defs, g.key)), "#555")>>
    \o [i \in 1..Len(g.rows) |->
            Div("item",
                "@ " \o Capitalize(g.rows[i]["type"]) \o ": "
                     \o Str(g.rows[i]["sub-item"]),
                TypeColor(g.rows[i]["type"]))]

\* row['type'].capitalize() raises AttributeError on a missing type.
TypeRaises(groups) ==
    \E g \in 1..Len(groups) :
        \E i \in 1..Len(groups[g].rows) : groups[g].rows[i]["type"] = NaN

create_taxonomy_tree(defs, df) ==
    LET groups == GroupBy(df, "competency")
    IN  IF TypeRaises(groups)
        THEN [raised |-> TRUE, value |-> <<>>]
        ELSE [raised |-> FALSE,
              value  |-> Flatten([g \in 1..Len(groups) |->
                                     TaxonomyGroup(defs, groups[g])])]

(***************************************************************************)
(* create_rating_scale_table (app.py:127-141).                             *)
(***************************************************************************)
\* A variant that forgets the filter and lists every scale's rows.
create_rating_scale_table_unfiltered(scales, selected_scale) ==
    [head |-> <<"Level", "Description">>,
     body |-> [i \in 1..Len(scales) |->
                  <<scales[i]["level"], scales[i]["rating score"]>>]]

create_rating_scale_table(scales, selected_scale) ==
    LET filtered_data == FilterRows(scales, "rating scales", selected_scale)
    IN  [head |-> <<"Level", "Description">>,
         body |-> [i \in 1..Len(filtered_data) |->
                      <<filtered_data[i]["level"],
                        filtered_data[i]["rating score"]>>]]

(***************************************************************************)
(* create_spider_chart (app.py:144-162).                                   *)
(***************************************************************************)
\* A variant that leaves the polygon open.
ClosePolygonOpen(s) == s

\* s += s[:1]; the slice of an empty list is empty.
ClosePolygon(s) == IF s = <<>> THEN s ELSE s \o <<s[1]>>

\* A variant without the emptiness test of line 148.
create_spider_chart_unguarded(data, position) ==
    LET filtered_data == FilterRows(data, "position", position)
    IN  [data  |-> <<[kind  |-> "scatterpolar",
                      r     |-> ClosePolygon(ColumnList(filtered_data,
                                                        "proficiency level")),
                      theta |-> ClosePolygon(ColumnList(filtered_data,
                                                        "competency"))]>>,
         title |-> Str(position) \o " Competency Requirements"]

create_spider_chart(data, position) ==
    LET filtered_data == FilterRows(data, "position", position)
        categories    == ColumnList(filtered_data, "competency")
        values        == ColumnList(filtered_data, "proficiency level")
    IN  IF categories # <<>> /\ values # <<>>
        THEN [data  |-> <<[kind  |-> "scatterpolar",
                           r     |-> ClosePolygon(values),
                           theta |-> ClosePolygon(categories)]>>,
              title |-> Str(position) \o " Competency Requirements"]
        ELSE [data |-> <<>>, title |-> ""]

(***************************************************************************)
(* create_competency_list (app.py:165-182).                                *)
(***************************************************************************)
CompetencyGroup(g) ==
    <<Div("competency", g.key, "blue")>>
    \o [i \in 1..Len(g.rows) |->
            Div("item",
                "@ " \o Str(g.rows[i]["sub-item"]) \o " (Proficiency Level: "
                     \o ToString(g.rows[i]["proficiency level"]) \o ")",
                TypeColor(g.rows[i]["type"]))]

create_competency_list(data, position) ==
    LET groups == GroupBy(FilterRows(data, "position", position), "competency")
    IN  IF TypeRaises(groups)
        THEN [raised |-> TRUE, value |-> <<>>]
        ELSE [raised |-> FALSE,
              value  |-> Flatten([g \in 1..Len(groups) |->
                                     CompetencyGroup(groups[g])])]

(***************************************************************************)
(* The tables after load and normalisation (app.py:24-45).  The columns    *)
(* are those the code reads, lower-cased by lines 32-37.                   *)
(***************************************************************************)
FrameworkColumns == {"framework", "competency", "type", "sub-item"}
DefinitionColumns == {"competency", "definition"}
RatingColumns == {"rating scales", "level", "rating score"}
CompetencyColumns == {"position", "competency", "proficiency level"}
SubItemColumns ==
    {"position", "competency", "type", "sub-item", "proficiency level"}
OrgColumns == {"name", "title", "manager"}

FrameworkRow(f, c, t, s) ==
    ("framework" :> f) @@ ("competency" :> c) @@ ("type" :> t) @@ ("sub-item" :> s)
DefinitionRow(c, d) == ("competency" :> c) @@ ("definition" :> d)
RatingRow(n, l, s) ==
    ("rating scales" :> n) @@ ("level" :> l) @@ ("rating score" :> s)
CompetencyRow(p, c, l) ==
    ("position" :> p) @@ ("competency" :> c) @@ ("proficiency level" :> l)
SubItemRow(p, c, t, s, l) ==
    ("position" :> p) @@ ("competency" :> c) @@ ("type" :> t)
        @@ ("sub-item" :> s) @@ ("proficiency level" :> l)
OrgRow(n, t, m) == ("name" :> n) @@ ("title" :> t) @@ ("manager" :> m)

\* The cells the tables are drawn from.
Frameworks == {"F1", "F2"}
Competencies == {"a", "B"}
Types == {"technical ability", "Soft Skill"}
FrameworkTypes == {"Technical Ability", NaN}
ScaleNames == {"1-5 Scale", "Pass-Fail"}
Levels == {1, 2}
Scores == {"Novice", "Intermediate"}
Positions == {"P1", "P2"}
Proficiencies == {1, 5}
OrgNames == {"A", "B", ""}
OrgTitles == {"CEO", "Sales Manager", NaN}
OrgManagers == {NaN, "", "A", "C"}

FrameworkRows ==
    {FrameworkRow(f, c, t, "s") :
        f \in Frameworks, c \in Competencies \cup {NaN}, t \in FrameworkTypes}
RatingRows == {RatingRow(n, l, s) : n \in ScaleNames, l \in Levels, s \in Scores}
CompetencyRows ==
    {CompetencyRow(p, c, l) : p \in Positions, c \in Competencies, l \in Proficiencies}
OrgRows == {OrgRow(n, t, m) : n \in OrgNames, t \in OrgTitles, m \in OrgManagers}

\* Definition cells: names that match a competency, one that differs from
\* "a" in case only, a missing name; two texts and a missing text.
DefinitionNames == {"a", "A", "B", NaN}
DefinitionTexts == {"Doing a", "Being B", NaN}
DefinitionRows ==
    {DefinitionRow(c, d) : c \in DefinitionNames, d \in DefinitionTexts}

\* One fixed data set, used where a specification varies another table.
SampleFramework ==
    Table(FrameworkColumns,
          <<FrameworkRow("F1", "a", "Soft Skill", "s"),
            FrameworkRow("F2", "a", "technical ability", "s"),
            FrameworkRow("F1", "B", "technical ability", "s")>>)
SampleDefinitions ==
    Table(DefinitionColumns, <<DefinitionRow("a", "Doing a")>>)
SampleRatingScales ==
    Table(RatingColumns,
          <<RatingRow("1-5 Scale", 1, "Novice"),
            RatingRow("Pass-Fail", 1, "Novice"),
            RatingRow("1-5 Scale", 2, "Intermediate")>>)
SampleCompetency ==
    Table(CompetencyColumns,
          <<CompetencyRow("P1", "a", 5), CompetencyRow("P2", "a", 1),
            CompetencyRow("P1", "B", 1)>>)
SampleSubItems ==
    Table(SubItemColumns,
          <<SubItemRow("P1", "a", "Soft Skill", "s", 5),
            SubItemRow("P1", "B", "technical ability", "s", 1)>>)
SampleOrganization ==
    Table(OrgColumns,
          <<OrgRow("A", "CEO", NaN), OrgRow("B", "Sales Manager", "A")>>)

(***************************************************************************)
(* The page and the registered callbacks (app.py:185-392).                 *)
(***************************************************************************)
\* None, for a dropdown without a selection.
PyNone == "<None>"
Truthy(v) == v # PyNone /\ v # ""

OutputIds ==
    {"organization-chart", "taxonomy-tree", "rating-scale-table",
     "spider-chart-section", "competency-list-section", "assessment-result",
     "assessment-form", "submit-button"}

EmptyPage == [id \in OutputIds |-> <<>>]

NoEvent == [component |-> "", value |-> "", outcome |-> "", raised |-> {}]

\* The @app.callback registrations, in source order.
Callbacks ==
    <<[handler |-> "update_framework", input |-> "framework-dropdown"],
      [handler |-> "update_rating_scale", input |-> "rating-scale-dropdown"],
      [handler |-> "update_visualizations", input |-> "position-dropdown"],
      [handler |-> "update_assessment_result", input |-> "assessment-dropdown"],
      [handler |-> "toggle_form", input |-> "assessment-dropdown"],
      [handler |-> "submit_form", input |-> "submit-button"]>>

\* A variant that runs only the first callback registered on the component.
TriggeredFirstOnly(component) ==
    LET OnComponent(cb) == cb.input = component
    IN  SubSeq(SelectSeq(Callbacks, OnComponent), 1, 1)

\* The callbacks a change of the component triggers.
Triggered(component) ==
    LET OnComponent(cb) == cb.input = component
    IN  SelectSeq(Callbacks, OnComponent)

HandlerNames(cbs) == [k \in 1..Len(cbs) |-> cbs[k].handler]

Returned(out) == [raised |-> FALSE, out |-> out, sends |-> 0]
Raised == [raised |-> TRUE, out |-> <<>>, sends |-> 0]

update_framework(selected_framework) ==
    LET filtered_data ==
            FilterRows(framework_data.rows, "framework", selected_framework)
        tree == create_taxonomy_tree(definitions_data.rows, filtered_data)
    IN  IF tree.raised THEN Raised
        ELSE Returned("taxonomy-tree" :> tree.value)

update_rating_scale(selected_scale) ==
    Returned("rating-scale-table" :>
                 create_rating_scale_table(rating_scales_data.rows, selected_scale))

update_visualizations(selected_position) ==
    LET spider_chart ==
            create_spider_chart(competency_data.rows, selected_position)
        competency_list ==
            create_competency_list(position_sub_items_data.rows, selected_position)
    IN  IF competency_list.raised THEN Raised
        ELSE Returned(("spider-chart-section" :> spider_chart)
                        @@ ("competency-list-section" :> competency_list.value))

update_assessment_result(selected_assessment) ==
    Returned("assessment-result" :>
                 IF Truthy(selected_assessment)
                 THEN "You have selected " \o selected_assessment
                      \o ". Fill the form below to request the template."
                 ELSE "")

toggle_form(selected_assessment) ==
    Returned("assessment-form" :>
                 [width   |-> "50%",
                  margin  |-> "0 auto",
                  display |-> IF Truthy(selected_assessment)
                              THEN "block" ELSE "none"])

SuccessText ==
    "Thank you! Your request has been submitted successfully. You will receive an email shortly."
FailureText ==
    "An error occurred while processing your request. Please try again later."

\* The outcomes of sg.send(message): it returns, or it raises.  The message
\* and the client are built from literals and formatted strings.
SendOutcomes == {"sent", "send_raises"}

\* A variant without the except clause: a failing send escapes.
submit_form_uncaught(clicks, outcome) ==
    IF clicks # 0
    THEN IF outcome = "sent"
         THEN [raised |-> FALSE, out |-> "submit-button" :> SuccessText, sends |-> 1]
         ELSE [raised |-> TRUE, out |-> <<>>, sends |-> 1]
    ELSE [raised |-> FALSE, out |-> "submit-button" :> "Submit", sends |-> 0]

\* A variant that sends a second time when the first send raises.
submit_form_retrying(clicks, outcome) ==
    IF clicks # 0
    THEN IF outcome = "sent"
         THEN [raised |-> FALSE, out |-> "submit-button" :> SuccessText, sends |-> 1]
         ELSE [raised |-> FALSE, out |-> "submit-button" :> FailureText, sends |-> 2]
    ELSE [raised |-> FALSE, out |-> "submit-button" :> "Submit", sends |-> 0]

\* submit_form (app.py:392-416); n_clicks None is 0 here, both are falsy.
submit_form(clicks, outcome) ==
    IF clicks # 0
    THEN IF outcome = "sent"
         THEN [raised |-> FALSE, out |-> "submit-button" :> SuccessText, sends |-> 1]
         ELSE [raised |-> FALSE, out |-> "submit-button" :> FailureText, sends |-> 1]
    ELSE Returned("submit-button" :> "Submit")

\* One callback run on the value of its input.
RunHandler(handler, value, clicks, outcome) ==
    CASE handler = "update_framework" -> update_framework(value)
      [] handler = "update_rating_scale" -> update_rating_scale(value)
      [] handler = "update_visualizations" -> update_visualizations(value)
      [] handler = "update_assessment_result" -> update_assessment_result(value)
      [] handler = "toggle_form" -> toggle_form(value)
      [] handler = "submit_form" -> submit_form(clicks, outcome)

\* The page after the results are rendered: a callback that raised leaves
\* its regions as they were.
Render(pg, results) ==
    [id \in DOMAIN pg |->
        IF \E k \in 1..Len(results) :
              ~results[k].raised /\ id \in DOMAIN results[k].out
        THEN LET k == CHOOSE k \in 1..Len(results) :
                          ~results[k].raised /\ id \in DOMAIN results[k].out
             IN  <<results[k].out[id]>>
        ELSE pg[id]]

RaisedIn(cbs, results) ==
    {cbs[k].handler : k \in {j \in 1..Len(cbs) : results[j].raised}}

RECURSIVE SumSends(_)
SumSends(results) ==
    IF results = <<>> THEN 0 ELSE Head(results).sends + SumSends(Tail(results))

(***************************************************************************)
(* The state after load and normalisation, and the steps of the program.   *)
(***************************************************************************)
InitTables(fw, defs, rs, cd, org) ==
    /\ framework_data = fw
    /\ definitions_data = defs
    /\ rating_scales_data = rs
    /\ competency_data = cd
    /\ position_sub_items_data = SampleSubItems
    /\ organization_chart_data = org
    /\ phase = "loaded"
    /\ page = EmptyPage
    /\ n_clicks = 0
    /\ last_event = NoEvent
    /\ handlers_run = <<>>
    /\ send_calls = 0
    /\ submissions = 0

InitWith(fw, rs, cd, org) == InitTables(fw, SampleDefinitions, rs, cd, org)

\* framework_options[0], rating_scale_options[0] and position_options[0]
\* (app.py:207,225,245) raise IndexError when the table has no row.
OptionsRaise ==
    \/ framework_data.rows = <<>>
    \/ rating_scales_data.rows = <<>>
    \/ competency_data.rows = <<>>

\* app.layout = ... (app.py:185-329): the dropdown defaults are evaluated,
\* then create_organization_chart runs on the module-level table itself.
BuildLayout ==
    /\ phase = "loaded"
    /\ IF OptionsRaise
       THEN /\ phase' = "failed"
            /\ UNCHANGED <<organization_chart_data, page>>
       ELSE LET chart == create_organization_chart(organization_chart_data)
            IN  /\ organization_chart_data' = chart.data
                /\ phase' = IF chart.raised THEN "failed" ELSE "serving"
                /\ page' = [page EXCEPT !["organization-chart"] = chart.fig]
    /\ UNCHANGED <<framework_data, definitions_data, rating_scales_data,
                   competency_data, position_sub_items_data, n_clicks,
                   last_event, handlers_run, send_calls, submissions>>

\* The value a component has in the layout (app.py:207,225,245,283,299).
InitialValue(component) ==
    CASE component = "framework-dropdown" ->
             Unique(ColumnList(framework_data.rows, "framework"))[1]
      [] component = "rating-scale-dropdown" ->
             Unique(ColumnList(rating_scales_data.rows, "rating scales"))[1]
      [] component = "position-dropdown" ->
             Unique(ColumnList(competency_data.rows, "position"))[1]
      [] component = "assessment-dropdown" -> PyNone
      [] component = "submit-button" -> ""

\* The effect of running the callbacks cbs, callback k on values[k].
Dispatch(component, shown, cbs, values, clicks, outcome) ==
    LET results == [k \in 1..Len(cbs) |->
                       RunHandler(cbs[k].handler, values[k], clicks, outcome)]
    IN  /\ page' = Render(page, results)
        /\ handlers_run' = HandlerNames(cbs)
        /\ last_event' = [component |-> component, value |-> shown,
                          outcome |-> outcome, raised |-> RaisedIn(cbs, results)]
        /\ send_calls' = send_calls + SumSends(results)
        /\ n_clicks' = clicks
        /\ submissions' = submissions + (IF clicks # 0 /\ component = "submit-button"
                                         THEN 1 ELSE 0)
        /\ UNCHANGED <<tables, phase>>

\* A browser loads the page: every callback runs once on the layout's
\* values, submit_form with n_clicks None.
PageLoad ==
    /\ phase = "serving"
    /\ Dispatch("page-load", "", Callbacks,
                [k \in 1..Len(Callbacks) |-> InitialValue(Callbacks[k].input)],
                0, "")

\* The callbacks of a dropdown run on the value the user picked.
Change(component, value) ==
    LET cbs == Triggered(component)
    IN  Dispatch(component, value, cbs, [k \in 1..Len(cbs) |-> value],
                 n_clicks, "")

FrameworkChoices == Frameworks \cup {"F3"}
ScaleChoices == ScaleNames \cup {"Other"}
PositionChoices == Positions \cup {"P3"}
AssessmentChoices ==
    {"leadership", "core_values", "full_position", "succession", PyNone}

FrameworkChange ==
    /\ phase = "serving"
    /\ \E v \in FrameworkChoices : Change("framework-dropdown", v)

RatingScaleChange ==
    /\ phase = "serving"
    /\ \E v \in ScaleChoices : Change("rating-scale-dropdown", v)

PositionChange ==
    /\ phase = "serving"
    /\ \E v \in PositionChoices : Change("position-dropdown", v)

AssessmentChange ==
    /\ phase = "serving"
    /\ \E v \in AssessmentChoices : Change("assessment-dropdown", v)

\* The user clicks Submit: n_clicks goes up by one and its callbacks run.
SubmitClick ==
    /\ phase = "serving"
    /\ submissions < MaxClicks
    /\ \E outcome \in SendOutcomes :
          LET cbs == Triggered("submit-button")
          IN  Dispatch("submit-button", "click", cbs,
                       [k \in 1..Len(cbs) |-> ""], n_clicks + 1, outcome)

(***************************************************************************)
(* Specifications.  Spec runs the whole program on the sample data; the    *)
(* others draw one table from every table within the bounds and run the    *)
(* builder that reads it.                                                  *)
(***************************************************************************)
Init ==
    InitWith(SampleFramework, SampleRatingScales, SampleCompetency,
             SampleOrganization)

Next ==
    \/ BuildLayout
    \/ PageLoad
    \/ FrameworkChange
    \/ RatingScaleChange
    \/ PositionChange
    \/ AssessmentChange
    \/ SubmitClick

Spec == Init /\ [][Next]_vars

InitOrg ==
    \E rs \in SeqsUpTo(OrgRows, MaxOrgRows) :
        InitWith(SampleFramework, SampleRatingScales, SampleCompetency,
                 Table(OrgColumns, rs))

NextOrg == BuildLayout

SpecOrg == InitOrg /\ [][NextOrg]_vars

InitTaxonomy ==
    \E rs \in SeqsUpTo(FrameworkRows, MaxFrameworkRows) :
        InitWith(Table(FrameworkColumns, rs), SampleRatingScales,
                 SampleCompetency, SampleOrganization)

NextTaxonomy == BuildLayout \/ FrameworkChange

SpecTaxonomy == InitTaxonomy /\ [][NextTaxonomy]_vars

InitRating ==
    \E rs \in SeqsUpTo(RatingRows, MaxRatingRows) :
        InitWith(SampleFramework, Table(RatingColumns, rs), SampleCompetency,
                 SampleOrganization)

NextRating == BuildLayout \/ RatingScaleChange

SpecRating == InitRating /\ [][NextRating]_vars

InitSpider ==
    \E rs \in SeqsUpTo(CompetencyRows, MaxCompetencyRows) :
        InitWith(SampleFramework, SampleRatingScales,
                 Table(CompetencyColumns, rs), SampleOrganization)

NextSpider == BuildLayout \/ PositionChange

SpecSpider == InitSpider /\ [][NextSpider]_vars

InitDefinitions ==
    \E rs \in SeqsUpTo(DefinitionRows, MaxDefinitionRows) :
        InitTables(SampleFramework, Table(DefinitionColumns, rs),
                   SampleRatingScales, SampleCompetency, SampleOrganization)

NextDefinitions == BuildLayout \/ FrameworkChange

SpecDefinitions == InitDefinitions /\ [][NextDefinitions]_vars

(***************************************************************************)
(* Properties.  Each is stated over what an event left on the page and the *)
(* table it was computed from, without the builders' own definitions.      *)
(***************************************************************************)
\* The indices of the rows of rs whose cell in col is value.
MatchingIndices(rs, col, value) == {i \in 1..Len(rs) : rs[i][col] = value}

\* The k-th smallest element of a set of indices.
Nth(idx, k) == CHOOSE i \in idx : Cardinality({j \in idx : j <= i}) = k

\* The rows at the indices idx, in input order.
RowsAt(rs, idx) == [k \in 1..Cardinality(idx) |-> rs[Nth(idx, k)]]

\* The values of s in order of first appearance.
FirstSeen(s) ==
    LET firsts == {i \in 1..Len(s) : \A j \in 1..(i - 1) : s[j] # s[i]}
    IN  [k \in 1..Cardinality(firsts) |-> s[Nth(firsts, k)]]

\* The competency headings of a tree, in the order they appear.
Headings(tree) ==
    LET IsHeading(d) == d.tag = "competency"
        hs == SelectSeq(tree, IsHeading)
    IN  [k \in 1..Len(hs) |-> hs[k].text]

\* The framework event just handled returned a tree.
FrameworkShown ==
    /\ last_event.component = "framework-dropdown"
    /\ last_event.raised = {}

\* The competencies of the rows of the selected framework, missing ones
\* left out, in input order.
SelectedCompetencies ==
    LET rs  == framework_data.rows
        idx == {i \in MatchingIndices(rs, "framework", last_event.value) :
                   rs[i]["competency"] # NaN}
    IN  ColumnList(RowsAt(rs, idx), "competency")

\* C1 as stated: the tree update_framework returns has one group per
\* distinct competency of the selected framework's rows, in the order in
\* which the competencies are first seen in those rows.
C1_FirstSeenOrder ==
    FrameworkShown =>
        Headings(page["taxonomy-tree"][1]) = FirstSeen(SelectedCompetencies)

\* C1, amended: the tree update_framework returns has one group per
\* distinct non-missing competency of the selected framework's rows, and
\* the groups are in ascending string order of the competency.
C1_SortedOrder ==
    FrameworkShown =>
        LET h == Headings(page["taxonomy-tree"][1])
            cs == SelectedCompetencies
        IN  /\ {h[k] : k \in 1..Len(h)} = {cs[i] : i \in 1..Len(cs)}
            /\ Len(h) = Cardinality({cs[i] : i \in 1..Len(cs)})
            /\ \A k \in 1..(Len(h) - 1) : StrLess(h[k], h[k + 1])

\* A tree of two groups whose competencies were first seen in the other
\* order, computed from a framework with a row of missing competency.
C1_Witness ==
    /\ FrameworkShown
    /\ Len(Headings(page["taxonomy-tree"][1])) = 2
    /\ Headings(page["taxonomy-tree"][1]) # FirstSeen(SelectedCompetencies)
    /\ \E i \in MatchingIndices(framework_data.rows, "framework", last_event.value) :
          framework_data.rows[i]["competency"] = NaN

\* The sunburst trace of the organization chart on the page.
OrgTrace == page["organization-chart"][1].data[1]

\* C2: the chart has one label per row of the organization table, and each
\* parent is the empty string or one of the labels.
C2_NoDanglingParent ==
    phase = "serving" =>
        /\ Len(OrgTrace.labels) = Len(organization_chart_data.rows)
        /\ Len(OrgTrace.parents) = Len(organization_chart_data.rows)
        /\ \A i \in 1..Len(OrgTrace.parents) :
              \/ OrgTrace.parents[i] = ""
              \/ \E j \in 1..Len(OrgTrace.labels) :
                    OrgTrace.parents[i] = OrgTrace.labels[j]

\* A chart of two nodes, one the parent of the other, the other a root
\* because its manager is named nowhere in the table.
C2_Witness ==
    /\ phase = "serving"
    /\ Len(OrgTrace.labels) = 2
    /\ \E i, j \in 1..2 :
          /\ OrgTrace.parents[i] = OrgTrace.labels[j]
          /\ OrgTrace.parents[j] = ""
          /\ organization_chart_data.rows[j]["manager"] = "C"

\* C3: label i is "name (title)" of row i; parent i is the label of the
\* row named by row i's manager, and the empty string when the manager is
\* empty, missing or names no row.
C3_EmptyManagerIsRoot ==
    phase = "serving" =>
        LET rs == organization_chart_data.rows
        IN  \A i \in 1..Len(rs) :
               /\ OrgTrace.labels[i]
                     = rs[i]["name"] \o " (" \o rs[i]["title"] \o ")"
               /\ (\/ rs[i]["manager"] = ""
                   \/ \A j \in 1..Len(rs) : rs[j]["name"] # rs[i]["manager"])
                     => OrgTrace.parents[i] = ""
               /\ (/\ rs[i]["manager"] # ""
                   /\ \E j \in 1..Len(rs) : rs[j]["name"] = rs[i]["manager"])
                     => \E j \in 1..Len(rs) :
                           /\ rs[j]["name"] = rs[i]["manager"]
                           /\ OrgTrace.parents[i] = OrgTrace.labels[j]

\* The position event just handled returned its two regions.
PositionShown ==
    /\ last_event.component = "position-dropdown"
    /\ last_event.raised = {}

\* The rows of the competency table for the selected position.
PositionRows ==
    RowsAt(competency_data.rows,
           MatchingIndices(competency_data.rows, "position", last_event.value))

SpiderFigure == page["spider-chart-section"][1]

\* C4 as stated: for a position with a matching row, the categories and the
\* values both have length (distinct competencies of the position) + 1,
\* list the matching rows in input order and end with their first element.
C4_DistinctPlusOne ==
    (PositionShown /\ Len(PositionRows) > 0) =>
        LET t == SpiderFigure.data[1]
            n == Cardinality({PositionRows[i]["competency"] :
                                 i \in 1..Len(PositionRows)})
        IN  /\ Len(t.theta) = n + 1
            /\ Len(t.r) = n + 1
            /\ t.theta[1] = t.theta[Len(t.theta)]
            /\ t.r[1] = t.r[Len(t.r)]

\* C4, amended: for a position with a matching row, the categories and the
\* values both have length (matching rows) + 1: the competency and the
\* proficiency of each matching row in input order, then those of the
\* first matching row again.
C4_RowsPlusOne ==
    (PositionShown /\ Len(PositionRows) > 0) =>
        LET t == SpiderFigure.data[1]
            n == Len(PositionRows)
        IN  /\ Len(SpiderFigure.data) = 1
            /\ Len(t.theta) = n + 1
            /\ Len(t.r) = n + 1
            /\ \A i \in 1..n :
                  /\ t.theta[i] = PositionRows[i]["competency"]
                  /\ t.r[i] = PositionRows[i]["proficiency level"]
            /\ t.theta[n + 1] = PositionRows[1]["competency"]
            /\ t.r[n + 1] = PositionRows[1]["proficiency level"]

\* A chart drawn for a position that lists one competency twice, among
\* rows of another position.
C4_Witness ==
    /\ PositionShown
    /\ Len(PositionRows) = 2
    /\ PositionRows[1]["competency"] = PositionRows[2]["competency"]
    /\ PositionRows[1]["proficiency level"] # PositionRows[2]["proficiency level"]
    /\ Len(competency_data.rows) = 3
    /\ Len(SpiderFigure.data[1].theta) = 3

\* C5: for a position without a matching row the chart is the empty
\* figure, one without a trace, and the callback does not raise.
C5_EmptyFigure ==
    (/\ last_event.component = "position-dropdown"
     /\ Len(PositionRows) = 0)
        => /\ last_event.raised = {}
           /\ page["spider-chart-section"] # <<>>
           /\ SpiderFigure.data = <<>>

\* An empty figure shown for a position the table has no row of, the table
\* holding rows of other positions.
C5_Witness ==
    /\ last_event.component = "position-dropdown"
    /\ Len(PositionRows) = 0
    /\ Len(competency_data.rows) >= 2
    /\ SpiderFigure.data = <<>>

\* The rows of the rating-scale table for the selected scale.
ScaleRows ==
    RowsAt(rating_scales_data.rows,
           MatchingIndices(rating_scales_data.rows, "rating scales",
                           last_event.value))

RatingTable == page["rating-scale-table"][1]

\* C6: the table body is exactly the (level, score) of the rows of the
\* selected scale, in input order, duplicates kept, nothing sorted, and no
\* row of another scale.
C6_RowsOfSelectedScale ==
    last_event.component = "rating-scale-dropdown" =>
        /\ last_event.raised = {}
        /\ Len(RatingTable.body) = Len(ScaleRows)
        /\ \A k \in 1..Len(ScaleRows) :
              RatingTable.body[k]
                  = <<ScaleRows[k]["level"], ScaleRows[k]["rating score"]>>

\* A table of two rows of the selected scale, the higher level first, shown
\* from a table that also has a row of another scale; and one of a row
\* repeated.
C6_Witness ==
    /\ last_event.component = "rating-scale-dropdown"
    /\ Len(rating_scales_data.rows) = 3
    /\ Len(RatingTable.body) = 2
    /\ \/ RatingTable.body[1][1] > RatingTable.body[2][1]
       \/ RatingTable.body[1] = RatingTable.body[2]

SubmitText == page["submit-button"][1]

\* C7: submit_form run on a click returns the success text when the send
\* completes and the failure text when it raises, and never raises itself;
\* run without a click it returns "Submit".
C7_SubmitResult ==
    /\ last_event.component = "submit-button" =>
          /\ "submit_form" \in {handlers_run[k] : k \in 1..Len(handlers_run)}
          /\ "submit_form" \notin last_event.raised
          /\ n_clicks > 0
          /\ last_event.outcome = "sent" => SubmitText = SuccessText
          /\ last_event.outcome = "send_raises" => SubmitText = FailureText
    /\ last_event.component = "page-load" =>
          /\ "submit_form" \notin last_event.raised
          /\ n_clicks = 0
          /\ SubmitText = "Submit"

\* A second click whose send raised, showing the failure text.
C7_Witness ==
    /\ last_event.component = "submit-button"
    /\ last_event.outcome = "send_raises"
    /\ n_clicks = 2
    /\ SubmitText = FailureText

\* C8: no step changes the columns or the cells of any of the six tables.
C8_TablesNeverChange == [][tables' = tables]_vars

\* C9: every submit_form run on a click makes exactly one send call and a
\* run without a click makes none, so the send calls number the clicked
\* submissions.
C9_OneSendPerSubmission == send_calls = submissions

\* Two clicked submissions made, the last with a send that raised.
C9_Witness ==
    /\ submissions = 2
    /\ send_calls = 2
    /\ last_event.component = "submit-button"
    /\ last_event.outcome = "send_raises"

UIComponents ==
    {"framework-dropdown", "rating-scale-dropdown", "position-dropdown",
     "assessment-dropdown", "submit-button"}

\* C10 as stated: every UI event triggers exactly one handler.
C10_OneHandlerPerEvent ==
    last_event.component \in UIComponents => Len(handlers_run) = 1

\* C10, amended: a change of the framework, rating-scale or position
\* dropdown and a click on the submit button each trigger exactly one
\* handler; a change of the assessment-type dropdown triggers exactly two,
\* update_assessment_result and toggle_form.
C10_HandlersPerEvent ==
    /\ last_event.component = "framework-dropdown"
          => handlers_run = <<"update_framework">>
    /\ last_event.component = "rating-scale-dropdown"
          => handlers_run = <<"update_rating_scale">>
    /\ last_event.component = "position-dropdown"
          => handlers_run = <<"update_visualizations">>
    /\ last_event.component = "submit-button"
          => handlers_run = <<"submit_form">>
    /\ last_event.component = "assessment-dropdown"
          => handlers_run = <<"update_assessment_result", "toggle_form">>

\* An assessment type picked: the result line and the form both updated.
C10_Witness ==
    /\ last_event.component = "assessment-dropdown"
    /\ last_event.value = "leadership"
    /\ Len(handlers_run) = 2
    /\ page["assessment-form"][1].display = "block"
    /\ page["assessment-result"][1] # ""

\* The index in the tree of the k-th competency heading.
HeadingAt(tree, k) ==
    Nth({i \in 1..Len(tree) : tree[i].tag = "competency"}, k)

\* The definition line a competency is to carry: the text of the first row
\* of the definitions table with exactly that name (a missing text prints
\* as nan), the placeholder when there is no such row.
ExpectedDefinitionLine(competency) ==
    LET defs  == definitions_data.rows
        named == MatchingIndices(defs, "competency", competency)
    IN  IF named = {} THEN "Definition: No definition available."
        ELSE LET cell == defs[Nth(named, 1)]["definition"]
             IN  "Definition: " \o (IF cell = NaN THEN "nan" ELSE cell)

\* C11: in the tree of create_taxonomy_tree every competency group carries
\* exactly one definition line, right after its heading: the definition of
\* the row of the definitions table named exactly like the competency, or
\* "No definition available." when no row is; a miss raises nothing.
C11_DefinitionLine ==
    last_event.component = "framework-dropdown" =>
        /\ last_event.raised = {}
        /\ LET tree == page["taxonomy-tree"][1]
               h    == Headings(tree)
           IN  /\ Cardinality({i \in 1..Len(tree) : tree[i].tag = "definition"})
                     = Len(h)
               /\ \A k \in 1..Len(h) :
                     LET i == HeadingAt(tree, k)
                     IN  /\ i < Len(tree)
                         /\ tree[i + 1].tag = "definition"
                         /\ tree[i + 1].text = ExpectedDefinitionLine(h[k])

\* A tree of two groups from a definitions table of two rows: one group
\* shows the text of the first of the two rows, both of its name and of
\* different texts; the other has no row and shows the placeholder.
C11_Witness ==
    /\ last_event.component = "framework-dropdown"
    /\ Len(definitions_data.rows) = 2
    /\ LET tree == page["taxonomy-tree"][1]
           h    == Headings(tree)
       IN  /\ Len(h) = 2
           /\ \E k \in 1..2 :
                 tree[HeadingAt(tree, k) + 1].text
                     = "Definition: No definition available."
           /\ \E k \in 1..2 :
                 /\ definitions_data.rows[1]["competency"] = h[k]
                 /\ definitions_data.rows[2]["competency"] = h[k]
                 /\ definitions_data.rows[1]["definition"]
                       # definitions_data.rows[2]["definition"]
                 /\ tree[HeadingAt(tree, k) + 1].text = "Definition: Doing a"
====
